---- MODULE Spec2Model ----
(***************************************************************************)
(* Model of the Journal page (src/src/pages/Journal.tsx): the hook values  *)
(* it reads, its four pieces of local state, the memoized filteredEntries, *)
(* the redirect effect, the render branches and the per-entry lookups.     *)
(*                                                                         *)
(* Text (asset, notes, search term) is a sequence of one-character         *)
(* strings so that toLowerCase and includes are computed character by      *)
(* character.  An absent optional field is the value Undefined (text) or   *)
(* UndefinedId (identifiers, labels).                                      *)
(*                                                                         *)
(* The identifier React of line 69 is taken to be bound (the file does not *)
(* import it); the model describes the component once it renders.          *)
(***************************************************************************)
EXTENDS Integers, Sequences, FiniteSets, TLC

VARIABLES
    route,              \* current location: "/journal" (page mounted) or "/auth"
    user,               \* useAuth().user
    authLoading,        \* useAuth().loading
    entries,            \* useCombinedEntries().entries
    entriesLoading,     \* useCombinedEntries().loading
    refetchPending,     \* a refresh of the entry list has been requested
    searchTerm,         \* useState('')
    selectedPlatform,   \* useState('all')
    selectedType,       \* useState('all')
    isAddDialogOpen,    \* useState(false)
    filteredEntries,    \* value cached by useMemo
    memoDeps,           \* dependency values of the cached filteredEntries
    effectPending,      \* the redirect effect is scheduled for the last commit
    lastEvent           \* the dialog event or redirect that produced the current state

vars == <<route, user, authLoading, entries, entriesLoading, refetchPending,
          searchTerm, selectedPlatform, selectedType, isAddDialogOpen,
          filteredEntries, memoDeps, effectPending, lastEvent>>

(***************************************************************************)
(* Bounds                                                                  *)
(***************************************************************************)
MaxEntries == 2

(***************************************************************************)
(* Absent values                                                           *)
(***************************************************************************)
Undefined == <<"undefined">>
UndefinedId == "<undefined>"
NoUser == "<null>"

(***************************************************************************)
(* String.prototype.toLowerCase and String.prototype.includes              *)
(***************************************************************************)
UpperLetters == <<"A","B","C","D","E","F","G","H","I","J","K","L","M",
                  "N","O","P","Q","R","S","T","U","V","W","X","Y","Z">>
LowerLetters == <<"a","b","c","d","e","f","g","h","i","j","k","l","m",
                  "n","o","p","q","r","s","t","u","v","w","x","y","z">>

toLowerChar(c) ==
    IF \E i \in 1..Len(UpperLetters) : UpperLetters[i] = c
    THEN LowerLetters[CHOOSE i \in 1..Len(UpperLetters) : UpperLetters[i] = c]
    ELSE c

toLowerCase(s) == [i \in 1..Len(s) |-> toLowerChar(s[i])]

includes(s, t) ==
    \E start \in 1..(Len(s) - Len(t) + 1) :
        SubSeq(s, start, start + Len(t) - 1) = t

(***************************************************************************)
(* Data returned by the hooks                                              *)
(***************************************************************************)
Platforms == << [id |-> "p1", name |-> "Binance"],
                [id |-> "p2", name |-> "Kraken"] >>

PlatformIds == {Platforms[i].id : i \in 1..Len(Platforms)}

BTC == [id |-> 1, type |-> "spot", asset |-> <<"B","T","C">>,
        notes |-> Undefined, platform_id |-> "p1",
        quantity |-> 2, price_usd |-> 1500, pnl |-> 0]
ETH == [id |-> 2, type |-> "futures", asset |-> <<"E","T","H">>,
        notes |-> <<"h","e","d","g","e"," ","b","T","c">>, platform_id |-> "p2",
        quantity |-> 0, price_usd |-> 0, pnl |-> 0 - 1200]
SOL == [id |-> 3, type |-> "staking", asset |-> <<"s","o","l">>,
        notes |-> Undefined, platform_id |-> UndefinedId,
        quantity |-> 3, price_usd |-> 20, pnl |-> 1200]

EntryPool == {BTC, ETH, SOL}

\* Lists of at most MaxEntries entries with pairwise distinct ids.
EntryLists ==
    UNION { { s \in [1..n -> EntryPool] :
                \A i, j \in 1..n : i # j => s[i].id # s[j].id } : n \in 0..MaxEntries }

\* One-entry lists over every combination of the fields a row displays.
RowTypes == {"spot", "futures", "wallet", "dual_investment", "liquidity_mining",
             "liquidity_pool", "other", "staking"}

RowLists ==
    { << [id |-> 1, type |-> t, asset |-> <<"B","T","C">>, notes |-> Undefined,
          platform_id |-> p, quantity |-> q, price_usd |-> pr, pnl |-> pl] >> :
        t \in RowTypes, p \in {"p1", "p9", UndefinedId},
        q \in {0, 2}, pr \in {0, 1500}, pl \in {0 - 1200, 0, 1200} }

SearchTerms == { <<>>, <<"b","t","c">>, <<"B","T","c">> }

SelectableTypes == {"all", "spot", "futures", "wallet", "dual_investment",
                    "liquidity_mining", "liquidity_pool", "other"}

SelectablePlatforms == {"all"} \cup PlatformIds

Users == {NoUser, "u1"}

(***************************************************************************)
(* filteredEntries (lines 75-86)                                           *)
(***************************************************************************)
\* Variant: the search term is compared without being lower-cased.
matchesSearch_TermAsTyped(entry, term) ==
    \/ Len(term) = 0
    \/ includes(toLowerCase(entry.asset), term)
    \/ /\ entry.notes # Undefined
       /\ includes(toLowerCase(entry.notes), term)

matchesSearch(entry, term) ==
    \/ Len(term) = 0
    \/ includes(toLowerCase(entry.asset), toLowerCase(term))
    \/ /\ entry.notes # Undefined
       /\ includes(toLowerCase(entry.notes), toLowerCase(term))

\* Variant: an entry without platform_id passes every platform filter.
matchesPlatform_AbsentPasses(entry, platform) ==
    platform = "all" \/ entry.platform_id = UndefinedId \/ entry.platform_id = platform

matchesPlatform(entry, platform) ==
    platform = "all" \/ entry.platform_id = platform

\* Variant: any entry that has a type passes the type filter.
matchesType_NotApplied(entry, type) ==
    type = "all" \/ entry.type # UndefinedId

matchesType(entry, type) ==
    type = "all" \/ entry.type = type

\* Variant: platform and type are alternatives instead of joint conditions.
EntryMatches_EitherFilter(entry, term, platform, type) ==
    matchesSearch(entry, term)
        /\ (matchesPlatform(entry, platform) \/ matchesType(entry, type))

EntryMatches(entry, term, platform, type) ==
    matchesSearch(entry, term) /\ matchesPlatform(entry, platform)
        /\ matchesType(entry, type)

ComputeFiltered(es, term, platform, type) ==
    LET Keep(entry) == EntryMatches(entry, term, platform, type)
    IN  SelectSeq(es, Keep)

(***************************************************************************)
(* Per-entry lookups (lines 36-44, 88-110, 420-422)                        *)
(***************************************************************************)
getEntryIcon(type) ==
    CASE type = "spot" -> "TrendingUp"
      [] type = "futures" -> "BarChart3"
      [] type = "wallet" -> "Wallet"
      [] type = "dual_investment" -> "Coins"
      [] type = "liquidity_mining" -> "Zap"
      [] type = "liquidity_pool" -> "Layers"
      [] OTHER -> "Activity"

entryTypeLabels ==
    [ spot |-> "Spot Trading", futures |-> "Futures", wallet |-> "Wallet",
      dual_investment |-> "Dual Investment", liquidity_mining |-> "Liquidity Mining",
      liquidity_pool |-> "Liquidity Pool", other |-> "Other" ]

\* entryTypeLabels[entry.type]: a property lookup, undefined for a missing key.
TypeBadgeLabel(type) ==
    IF type \in DOMAIN entryTypeLabels THEN entryTypeLabels[type] ELSE UndefinedId

getPlatformName(platformId) ==
    LET found == { i \in 1..Len(Platforms) : Platforms[i].id = platformId }
        platform == Platforms[CHOOSE i \in found : \A j \in found : i <= j]
    IN  IF found = {} \/ platform.name = "" THEN "Unknown Platform" ELSE platform.name

\* The argument of getPlatformName at line 390: entry.platform_id || ''.
PlatformLabel(entry) ==
    getPlatformName(IF entry.platform_id = UndefinedId THEN "" ELSE entry.platform_id)

(***************************************************************************)
(* Number.prototype.toLocaleString for a non-negative integer, en-US:      *)
(* decimal digits in groups of three separated by commas.                  *)
(***************************************************************************)
DigitChars == <<"0","1","2","3","4","5","6","7","8","9">>

RECURSIVE Digits(_)
Digits(n) ==
    IF n < 10 THEN DigitChars[n + 1]
    ELSE Digits(n \div 10) \o DigitChars[(n % 10) + 1]

ThreeDigits(n) ==
    DigitChars[(n \div 100) + 1] \o DigitChars[((n \div 10) % 10) + 1]
        \o DigitChars[(n % 10) + 1]

RECURSIVE toLocaleString(_)
toLocaleString(n) ==
    IF n < 1000 THEN Digits(n)
    ELSE toLocaleString(n \div 1000) \o "," \o ThreeDigits(n % 1000)

Abs(n) == IF n < 0 THEN 0 - n ELSE n

(***************************************************************************)
(* formatEntryValue (lines 112-121)                                        *)
(***************************************************************************)
\* Variant: a spot entry is valued from quantity and price without the
\* check that both are non-zero.
formatEntryValue_Unguarded(entry) ==
    IF entry.type = "spot"
    THEN "$" \o toLocaleString(entry.quantity * entry.price_usd)
    ELSE IF entry.pnl # 0
    THEN (IF entry.pnl > 0 THEN "+" ELSE "") \o "$" \o toLocaleString(Abs(entry.pnl))
    ELSE "-"

formatEntryValue(entry) ==
    IF entry.type = "spot" /\ entry.quantity # 0 /\ entry.price_usd # 0
    THEN "$" \o toLocaleString(entry.quantity * entry.price_usd)
    ELSE IF entry.pnl # 0
    THEN (IF entry.pnl > 0 THEN "+" ELSE "") \o "$" \o toLocaleString(Abs(entry.pnl))
    ELSE "-"

(***************************************************************************)
(* useMemo (lines 75 and 86): the dependency array, and the value kept     *)
(* from the previous render unless a dependency changed.                   *)
(***************************************************************************)
\* Variant: selectedType is missing from the dependency array.
MemoDepsOf_WithoutType(es, term, platform, type) == <<es, term, platform>>

MemoDepsOf(es, term, platform, type) == <<es, term, platform, type>>

UseMemo(prevValue, prevDeps, es, term, platform, type) ==
    IF MemoDepsOf(es, term, platform, type) # prevDeps
    THEN ComputeFiltered(es, term, platform, type)
    ELSE prevValue

\* The render that follows a state or hook change.
Rerender ==
    /\ memoDeps' = MemoDepsOf(entries', searchTerm', selectedPlatform', selectedType')
    /\ filteredEntries' = UseMemo(filteredEntries, memoDeps, entries', searchTerm',
                                  selectedPlatform', selectedType')

\* The redirect effect's dependency array (line 73); navigate is stable.
EffectDepsOf(u, al) == <<u, al>>

ScheduleEffect ==
    effectPending' = (EffectDepsOf(user', authLoading') # EffectDepsOf(user, authLoading))

(***************************************************************************)
(* Render branches (lines 137-153, 313-336, 436)                           *)
(***************************************************************************)
\* Variant: the loading branch looks at authLoading only.
ShowsLoading_AuthOnly(al, el) == al

ShowsLoading(al, el) == al \/ el

View ==
    IF route # "/journal" THEN "unmounted"
    ELSE IF ShowsLoading(authLoading, entriesLoading) THEN "loading"
    ELSE IF user = NoUser THEN "redirecting"
    ELSE "journal"

\* Variant: the two titles are exchanged.
EmptyStateTitle_Exchanged(nEntries) ==
    IF nEntries = 0 THEN "No entries match your filters" ELSE "No entries yet"

EmptyStateTitle(nEntries) ==
    IF nEntries = 0 THEN "No entries yet" ELSE "No entries match your filters"

\* What the entries card shows: the list, or one of the two empty states.
EntriesCard ==
    IF View # "journal" THEN "none"
    ELSE IF Len(filteredEntries) = 0 THEN EmptyStateTitle(Len(entries))
    ELSE "list"

FirstEntryButtonShown ==
    View = "journal" /\ Len(filteredEntries) = 0 /\ Len(entries) = 0

RenderedList == IF EntriesCard = "list" THEN filteredEntries ELSE <<>>

\* The filters, the entries card and the header Add Entry button are all part
\* of the final return (lines 159-433).
JournalContentShown == View = "journal"

DialogShown == View = "journal" /\ isAddDialogOpen

(***************************************************************************)
(* Initial state: the first render of the page                             *)
(***************************************************************************)
Init ==
    /\ route = "/journal"
    /\ user \in Users
    /\ authLoading \in BOOLEAN
    /\ entries \in EntryLists
    /\ entriesLoading \in BOOLEAN
    /\ refetchPending = FALSE
    /\ searchTerm = <<>>
    /\ selectedPlatform = "all"
    /\ selectedType = "all"
    /\ isAddDialogOpen = FALSE
    /\ memoDeps = MemoDepsOf(entries, searchTerm, selectedPlatform, selectedType)
    /\ filteredEntries = ComputeFiltered(entries, searchTerm, selectedPlatform, selectedType)
    /\ effectPending = TRUE
    /\ lastEvent = "none"

Interactive == View = "journal" /\ ~effectPending

(***************************************************************************)
(* Hook changes                                                            *)
(***************************************************************************)
AuthChange(al, u) ==
    /\ ~effectPending
    /\ <<al, u>> # <<authLoading, user>>
    /\ authLoading' = al
    /\ user' = u
    /\ UNCHANGED <<route, entries, entriesLoading, refetchPending, searchTerm,
                   selectedPlatform, selectedType, isAddDialogOpen>>
    /\ IF route = "/journal"
       THEN Rerender /\ ScheduleEffect
       ELSE UNCHANGED <<filteredEntries, memoDeps, effectPending>>
    /\ lastEvent' = "none"

EntriesChange(el, es) ==
    /\ route = "/journal"
    /\ ~effectPending
    /\ <<el, es>> # <<entriesLoading, entries>>
    /\ entriesLoading' = el
    /\ entries' = es
    /\ refetchPending' = IF el THEN refetchPending ELSE FALSE
    /\ UNCHANGED <<route, user, authLoading, searchTerm, selectedPlatform,
                   selectedType, isAddDialogOpen>>
    /\ Rerender /\ ScheduleEffect
    /\ lastEvent' = "none"

(***************************************************************************)
(* Filter controls (lines 210-246)                                         *)
(***************************************************************************)
SetSearchTerm(value) ==
    /\ Interactive
    /\ value # searchTerm
    /\ searchTerm' = value
    /\ UNCHANGED <<route, user, authLoading, entries, entriesLoading, refetchPending,
                   selectedPlatform, selectedType, isAddDialogOpen>>
    /\ Rerender /\ ScheduleEffect
    /\ lastEvent' = "none"

SetSelectedPlatform(value) ==
    /\ Interactive
    /\ value # selectedPlatform
    /\ selectedPlatform' = value
    /\ UNCHANGED <<route, user, authLoading, entries, entriesLoading, refetchPending,
                   searchTerm, selectedType, isAddDialogOpen>>
    /\ Rerender /\ ScheduleEffect
    /\ lastEvent' = "none"

SetSelectedType(value) ==
    /\ Interactive
    /\ value # selectedType
    /\ selectedType' = value
    /\ UNCHANGED <<route, user, authLoading, entries, entriesLoading, refetchPending,
                   searchTerm, selectedPlatform, isAddDialogOpen>>
    /\ Rerender /\ ScheduleEffect
    /\ lastEvent' = "none"

(***************************************************************************)
(* Add Entry dialog (lines 198, 329, 436-442)                              *)
(***************************************************************************)
\* The value the two Add Entry buttons pass to setIsAddDialogOpen.
AddClickValue == TRUE

\* Variant: onClose leaves the dialog open.
OnCloseValue_StaysOpen == TRUE

\* The value JournalEntryForm's onClose passes to setIsAddDialogOpen.
OnCloseValue == FALSE

DialogStep(open, refetch, event) ==
    /\ isAddDialogOpen' = open
    /\ refetchPending' = refetch
    /\ lastEvent' = event
    /\ UNCHANGED <<route, user, authLoading, entries, entriesLoading, searchTerm,
                   selectedPlatform, selectedType>>
    /\ Rerender /\ ScheduleEffect

ClickAddEntry ==
    /\ Interactive
    /\ DialogStep(AddClickValue, refetchPending, "add_click")

ClickAddFirstEntry ==
    /\ Interactive
    /\ FirstEntryButtonShown
    /\ DialogStep(AddClickValue, refetchPending, "add_click")

\* Dialog's onOpenChange (escape key, click outside): the dialog asks to close.
DialogOnOpenChange ==
    /\ Interactive
    /\ DialogShown
    /\ DialogStep(FALSE, refetchPending, "none")

\* JournalEntryForm calls onClose without having submitted (cancel).
FormOnClose ==
    /\ Interactive
    /\ DialogShown
    /\ DialogStep(OnCloseValue, refetchPending, "none")

\* JournalEntryForm after a successful submission: the entry list is asked
\* to refresh and onClose is called.
FormSubmitSuccess ==
    /\ Interactive
    /\ DialogShown
    /\ DialogStep(OnCloseValue, TRUE, "submit_success")

(***************************************************************************)
(* Redirect effect (lines 68-73) and the route                             *)
(***************************************************************************)
\* Variant: the effect does not wait for authentication to finish loading.
ShouldRedirect_WhileLoading(al, u) == u = NoUser

ShouldRedirect(al, u) == ~al /\ u = NoUser

\* Leaving the page unmounts it: its state and its entries hook are gone.
Unmounted ==
    /\ entries' = <<>>
    /\ entriesLoading' = TRUE
    /\ refetchPending' = FALSE
    /\ searchTerm' = <<>>
    /\ selectedPlatform' = "all"
    /\ selectedType' = "all"
    /\ isAddDialogOpen' = FALSE
    /\ filteredEntries' = <<>>
    /\ memoDeps' = <<>>
    /\ effectPending' = FALSE

RunEffect ==
    /\ route = "/journal"
    /\ effectPending
    /\ IF ShouldRedirect(authLoading, user)
       THEN /\ route' = "/auth"
            /\ Unmounted
            /\ lastEvent' = "redirect"
       ELSE /\ effectPending' = FALSE
            /\ UNCHANGED <<route, entries, entriesLoading, refetchPending, searchTerm,
                           selectedPlatform, selectedType, isAddDialogOpen,
                           filteredEntries, memoDeps, lastEvent>>
    /\ UNCHANGED <<user, authLoading>>

\* The page is opened again from the authentication route: a fresh mount.
OpenJournal(el, es) ==
    /\ route = "/auth"
    /\ route' = "/journal"
    /\ entriesLoading' = el
    /\ entries' = es
    /\ refetchPending' = FALSE
    /\ searchTerm' = <<>>
    /\ selectedPlatform' = "all"
    /\ selectedType' = "all"
    /\ isAddDialogOpen' = FALSE
    /\ memoDeps' = MemoDepsOf(entries', searchTerm', selectedPlatform', selectedType')
    /\ filteredEntries' = ComputeFiltered(entries', searchTerm', selectedPlatform',
                                          selectedType')
    /\ effectPending' = TRUE
    /\ lastEvent' = "none"
    /\ UNCHANGED <<user, authLoading>>

Next ==
    \/ \E al \in BOOLEAN, u \in Users : AuthChange(al, u)
    \/ \E el \in BOOLEAN, es \in EntryLists : EntriesChange(el, es)
    \/ \E value \in SearchTerms : SetSearchTerm(value)
    \/ \E value \in SelectablePlatforms : SetSelectedPlatform(value)
    \/ \E value \in SelectableTypes : SetSelectedType(value)
    \/ ClickAddEntry
    \/ ClickAddFirstEntry
    \/ DialogOnOpenChange
    \/ FormOnClose
    \/ FormSubmitSuccess
    \/ RunEffect
    \/ \E el \in BOOLEAN, es \in EntryLists : OpenJournal(el, es)

Spec == Init /\ [][Next]_vars

(***************************************************************************)
(* The loaded, authenticated page showing one row at a time: the hook      *)
(* delivers one-entry lists over RowLists.                                 *)
(***************************************************************************)
RowInit ==
    /\ route = "/journal"
    /\ user = "u1"
    /\ authLoading = FALSE
    /\ entries \in RowLists
    /\ entriesLoading = FALSE
    /\ refetchPending = FALSE
    /\ searchTerm = <<>>
    /\ selectedPlatform = "all"
    /\ selectedType = "all"
    /\ isAddDialogOpen = FALSE
    /\ memoDeps = MemoDepsOf(entries, searchTerm, selectedPlatform, selectedType)
    /\ filteredEntries = ComputeFiltered(entries, searchTerm, selectedPlatform, selectedType)
    /\ effectPending = TRUE
    /\ lastEvent = "none"

RowNext ==
    \/ \E el \in BOOLEAN, es \in RowLists : EntriesChange(el, es)
    \/ RunEffect

RowSpec == RowInit /\ [][RowNext]_vars


\* The effect scheduled by a commit runs: React flushes passive effects
\* before it renders again.
LiveSpec == Spec /\ WF_vars(RunEffect)

(***************************************************************************)
(* Properties                                                              *)
(***************************************************************************)
Range(s) == { s[i] : i \in 1..Len(s) }

SameLetter(a, b) ==
    \/ a = b
    \/ \E i \in 1..Len(UpperLetters) : {a, b} = {UpperLetters[i], LowerLetters[i]}

SameIgnoringCase(s, t) ==
    Len(s) = Len(t) /\ \A j \in 1..Len(s) : SameLetter(s[j], t[j])

ContainsIgnoringCase(text, term) ==
    \E k \in 0..(Len(text) - Len(term)) :
        \A j \in 1..Len(term) : SameLetter(text[k + j], term[j])

SearchHits(entry, term) ==
    \/ ContainsIgnoringCase(entry.asset, term)
    \/ entry.notes # Undefined /\ ContainsIgnoringCase(entry.notes, term)

IsSubsequence(a, b) ==
    \E f \in [1..Len(a) -> 1..Len(b)] :
        /\ \A i, j \in 1..Len(a) : i < j => f[i] < f[j]
        /\ \A i \in 1..Len(a) : b[f[i]] = a[i]

Mounted == route = "/journal"

\* C1: an entry is in filteredEntries exactly when the search condition, the
\* platform condition and the type condition all hold; the result for
\* (s, p, t) is the intersection of the results for (s, all, all),
\* ('', p, all) and ('', all, t).
C1_FilterIsConjunction ==
    Mounted =>
        /\ \A i \in 1..Len(entries) :
              entries[i] \in Range(filteredEntries) <=>
                  /\ searchTerm = <<>> \/ SearchHits(entries[i], searchTerm)
                  /\ selectedPlatform = "all" \/ entries[i].platform_id = selectedPlatform
                  /\ selectedType = "all" \/ entries[i].type = selectedType
        /\ Range(filteredEntries) =
              Range(ComputeFiltered(entries, searchTerm, "all", "all"))
                  \cap Range(ComputeFiltered(entries, <<>>, selectedPlatform, "all"))
                  \cap Range(ComputeFiltered(entries, <<>>, "all", selectedType))

C1_Witness ==
    /\ Mounted
    /\ searchTerm # <<>> /\ selectedPlatform # "all" /\ selectedType # "all"
    /\ Len(filteredEntries) >= 1
    /\ Len(filteredEntries) < Len(entries)

\* C2: with an exact platform id selected, every entry of filteredEntries has
\* that platform_id; an entry with another or no platform_id is not in it.
C2_PlatformExact ==
    (Mounted /\ selectedPlatform # "all") =>
        /\ \A i \in 1..Len(filteredEntries) :
              filteredEntries[i].platform_id = selectedPlatform
        /\ \A i \in 1..Len(entries) :
              entries[i].platform_id # selectedPlatform
                  => entries[i] \notin Range(filteredEntries)

C2_Witness ==
    /\ Mounted
    /\ selectedPlatform \in PlatformIds
    /\ \E i \in 1..Len(entries) : entries[i].platform_id = UndefinedId
    /\ Len(filteredEntries) >= 1

\* C3: with type 'spot' selected every entry of filteredEntries is a spot
\* entry; with no search term and all platforms the result is exactly the
\* spot entries, and for [BTC spot, ETH futures] it is exactly [BTC].
C3_SpotOnly ==
    (Mounted /\ selectedType = "spot") =>
        /\ \A i \in 1..Len(filteredEntries) : filteredEntries[i].type = "spot"
        /\ (searchTerm = <<>> /\ selectedPlatform = "all") =>
              LET IsSpot(e) == e.type = "spot"
              IN  /\ filteredEntries = SelectSeq(entries, IsSpot)
                  /\ entries = <<BTC, ETH>> => filteredEntries = <<BTC>>

C3_Witness ==
    /\ Mounted
    /\ selectedType = "spot" /\ searchTerm = <<>> /\ selectedPlatform = "all"
    /\ entries = <<BTC, ETH>>
    /\ Len(filteredEntries) = 1

\* C4: with platform and type at 'all', a non-empty search term selects
\* exactly the entries whose asset or notes contains it ignoring letter case;
\* terms differing only in case select the same entries; an entry without
\* notes is selected only through its asset.
C4_SearchIgnoresCase ==
    (Mounted /\ selectedPlatform = "all" /\ selectedType = "all" /\ searchTerm # <<>>) =>
        /\ LET Hit(e) == SearchHits(e, searchTerm)
           IN  filteredEntries = SelectSeq(entries, Hit)
        /\ \A other \in SearchTerms :
              SameIgnoringCase(other, searchTerm) =>
                  ComputeFiltered(entries, other, "all", "all") = filteredEntries
        /\ \A i \in 1..Len(filteredEntries) :
              filteredEntries[i].notes = Undefined =>
                  ContainsIgnoringCase(filteredEntries[i].asset, searchTerm)

C4_Witness ==
    /\ Mounted
    /\ selectedPlatform = "all" /\ selectedType = "all"
    /\ searchTerm = <<"B","T","c">>
    /\ filteredEntries = <<BTC, ETH>>

\* C5: in the loaded, authenticated view, an empty entry list shows 'No
\* entries yet' with the 'Add Your First Entry' button; a non-empty list with
\* empty filteredEntries shows 'No entries match your filters' without the
\* button; non-empty filteredEntries shows neither.
C5_EmptyStates ==
    View = "journal" =>
        /\ Len(entries) = 0 =>
              EntriesCard = "No entries yet" /\ FirstEntryButtonShown
        /\ (Len(entries) > 0 /\ Len(filteredEntries) = 0) =>
              EntriesCard = "No entries match your filters" /\ ~FirstEntryButtonShown
        /\ Len(filteredEntries) > 0 =>
              EntriesCard = "list" /\ ~FirstEntryButtonShown

C5_Witness ==
    /\ View = "journal"
    /\ Len(entries) > 0
    /\ Len(filteredEntries) = 0
    /\ EntriesCard = "No entries match your filters"

SignedPnl(pnl) ==
    IF pnl > 0 THEN "+$" \o toLocaleString(pnl) ELSE "$" \o toLocaleString(0 - pnl)

Negated(entry) == [entry EXCEPT !.pnl = 0 - entry.pnl]

\* C6 as stated: every spot entry displays quantity x price_usd; every other
\* entry displays its signed P&L when pnl is non-zero (opposite signs give
\* different text) and '-' when pnl is 0.
C6_AsStated ==
    \A i \in 1..Len(RenderedList) :
        LET e == RenderedList[i]
        IN  /\ e.type = "spot" =>
                  formatEntryValue(e) = "$" \o toLocaleString(e.quantity * e.price_usd)
            /\ (e.type # "spot" /\ e.pnl # 0) =>
                  /\ formatEntryValue(e) = SignedPnl(e.pnl)
                  /\ formatEntryValue(Negated(e)) # formatEntryValue(e)
            /\ (e.type # "spot" /\ e.pnl = 0) => formatEntryValue(e) = "-"

ValuedAsSpot(e) == e.type = "spot" /\ e.quantity # 0 /\ e.price_usd # 0

\* C6 (amended): a spot entry whose quantity and price_usd are both non-zero
\* displays quantity x price_usd; every other entry, a spot entry with a zero
\* quantity or price included, displays '+$|pnl|' for a positive pnl, '$|pnl|'
\* for a negative pnl, and '-' for pnl 0.
C6_ValueFormat ==
    \A i \in 1..Len(RenderedList) :
        LET e == RenderedList[i]
        IN  /\ ValuedAsSpot(e) =>
                  /\ formatEntryValue(e) = "$" \o toLocaleString(e.quantity * e.price_usd)
                  /\ (e.quantity = 2 /\ e.price_usd = 1500) => formatEntryValue(e) = "$3,000"
            /\ (~ValuedAsSpot(e) /\ e.pnl # 0) =>
                  /\ formatEntryValue(e) = SignedPnl(e.pnl)
                  /\ formatEntryValue(Negated(e)) # formatEntryValue(e)
                  /\ e.pnl = 1200 => formatEntryValue(e) = "+$1,200"
                  /\ e.pnl = 0 - 1200 => formatEntryValue(e) = "$1,200"
            /\ (~ValuedAsSpot(e) /\ e.pnl = 0) => formatEntryValue(e) = "-"

C6_Witness ==
    /\ Len(RenderedList) = 1
    /\ RenderedList[1].type = "spot"
    /\ RenderedList[1].quantity = 0
    /\ RenderedList[1].price_usd = 1500
    /\ RenderedList[1].pnl = 1200

KnownTypes == DOMAIN entryTypeLabels

\* C9 as stated: an entry whose type is outside the fixed set gets the generic
\* icon and a defined, non-empty type label; an entry whose platform_id
\* matches no known platform gets the label 'Unknown Platform'.
C9_AsStated ==
    \A i \in 1..Len(RenderedList) :
        LET e == RenderedList[i]
        IN  /\ e.type \notin KnownTypes =>
                  /\ getEntryIcon(e.type) = "Activity"
                  /\ TypeBadgeLabel(e.type) # UndefinedId
                  /\ TypeBadgeLabel(e.type) # ""
            /\ e.platform_id \notin PlatformIds =>
                  PlatformLabel(e) = "Unknown Platform"

\* C10: the list rendered is the filter predicate applied to the current
\* entries with the current filter values, a subsequence of the current
\* entries without duplicates.
C10_NeverStale ==
    Mounted =>
        /\ filteredEntries =
              ComputeFiltered(entries, searchTerm, selectedPlatform, selectedType)
        /\ View = "journal" =>
              /\ \A i \in 1..Len(entries) :
                    entries[i] \in Range(RenderedList) <=>
                        EntryMatches(entries[i], searchTerm, selectedPlatform, selectedType)
              /\ IsSubsequence(RenderedList, entries)
              /\ Cardinality(Range(RenderedList)) = Len(RenderedList)

C10_Witness ==
    /\ View = "journal"
    /\ isAddDialogOpen
    /\ selectedType = "futures"
    /\ searchTerm = <<"b","t","c">>
    /\ entries = <<SOL, ETH>>
    /\ RenderedList = <<ETH>>

Authenticated == ~authLoading /\ ~entriesLoading /\ user # NoUser

\* C11: the journal content (filters, entry list, Add Entry buttons) and the
\* form dialog are rendered only when authLoading is false, entriesLoading is
\* false and a user is present, also when isAddDialogOpen is true; and
\* isAddDialogOpen becomes true only from such a state.
C11_ContentGated ==
    /\ []((JournalContentShown \/ FirstEntryButtonShown \/ DialogShown
               \/ Len(RenderedList) > 0)
            => (Mounted /\ Authenticated))
    /\ []((Mounted /\ isAddDialogOpen /\ ~Authenticated) => ~DialogShown)
    /\ [][(~isAddDialogOpen /\ isAddDialogOpen') => (Mounted /\ Authenticated)]_vars

C11_Witness ==
    /\ Mounted
    /\ isAddDialogOpen
    /\ entriesLoading
    /\ ~DialogShown
    /\ lastEvent = "none"

====
